---- MODULE Spec2Model ----
(***************************************************************************)
(* Model of store/mem.go (package store of PuerkitoBio/throttled): the     *)
(* in-memory counter store memStore with its three operations Get, SetNX   *)
(* and CompareAndSwap, in both construction modes of NewMemStore:          *)
(*   maxKeys > 0   the keys live in an LRU cache (hashicorp/golang-lru),   *)
(*   maxKeys <= 0  the keys live in a Go map guarded by the RWMutex.       *)
(* Values are *int64: the store maps a key to a heap cell, and the cell    *)
(* is read and written with sync/atomic.  Every goroutine is a thread of   *)
(* the model and every lock operation, container operation and atomic      *)
(* operation of the code is one step.                                      *)
(***************************************************************************)
EXTENDS Integers, Sequences, FiniteSets, TLC

\* ------------------------------------------------------------------ bounds
NumThreads == 2
NumKeys == 3
MaxVal == 1
MaxCap == 2
MaxCalls == 4
\* number of calls in the runs checked for termination (SpecFair)
FairCalls == 2
\* number of calls in the runs whose history is kept (SpecLin)
LinCalls == 3

\* the goroutines that call the store at will, and one more that calls it only
\* after the others have returned (see SpecRace)
Callers == 1..NumThreads
Observer == NumThreads + 1
Threads == Callers \cup {Observer}
Keys == 1..NumKeys
Vals == 0..MaxVal
\* maxKeys arguments of NewMemStore: -1 and 0 select the map, 1..MaxCap the LRU
Caps == (-1)..MaxCap

\* ------------------------------------------------------------- state
VARIABLES
    maxKeys,    \* the argument NewMemStore was called with
    keys,       \* ms.keys: the LRU cache, front (index 1) = most recently used
    m,          \* ms.m: the map, key -> cell (0 = no entry)
    heap,       \* the int64 cells allocated by SetNX (&v), cell i holds heap[i]
    writer,     \* RWMutex: the thread that called Lock() and holds rw.w (0 = none)
    readers,    \* RWMutex: the threads holding a read lock
    pc,         \* per thread: position in the code
    call,       \* per thread: the operation in progress and its arguments
    valP,       \* per thread: local valP of the running operation (0 = nil)
    res,        \* per thread: the values the operation returns
    ncalls,     \* number of calls started so far (bounded by MaxCalls)
    lastTouch,  \* history: per key, rank of its most recent touch among the present keys
    evicted,    \* history: per key, the cell it held when it was last evicted (0 = never)
    everSet,    \* history: the keys some SetNX has created
    lin,        \* history (SpecLin): per key, the sequential states its calls allow
    writes      \* history (SpecLin): per key, the successful writes in order

vars == <<maxKeys, keys, m, heap, writer, readers, pc, call, valP, res, ncalls,
          lastTouch, evicted, everSet, lin, writes>>

store == <<maxKeys, keys, m, heap>>
locks == <<writer, readers>>
hist == <<lastTouch, evicted, everSet>>

\* ----------------------------------------------------------- results
ErrNoSuchKey == "ErrNoSuchKey"
nil == "nil"
NoCall == [op |-> "none", key |-> 0, value |-> 0, old |-> 0, new |-> 0]
NoRes == [val |-> 0, b |-> FALSE, err |-> "none"]

\* a key as a sequential object is Absent or holds a value; before any call
\* it is Absent and no thread has a call on it
Absent == -1
NoHistory == [k \in Keys |-> {[s |-> Absent, r |-> [t \in Threads |-> NoRes]]}]

\* ------------------------------------------- the LRU cache of ms.keys
\* c.items[key]: index of the entry of key k in the evict list, 0 if none
lruIndex(c, k) ==
    IF \E i \in 1..Len(c) : c[i].key = k
    THEN CHOOSE i \in 1..Len(c) : c[i].key = k
    ELSE 0

\* evictList.MoveToFront
MoveToFront(c, i) ==
    <<c[i]>> \o SubSeq(c, 1, i - 1) \o SubSeq(c, i + 1, Len(c))

\* an eviction that hands the oldest entry's cell to the next oldest
removeOldest_Rewrite(c) ==
    [SubSeq(c, 1, Len(c) - 1) EXCEPT ![Len(c) - 1].val = c[Len(c)].val]

\* c.removeOldest: drops the back of the evict list
removeOldest(c) == SubSeq(c, 1, Len(c) - 1)

\* a Get that returns the value without refreshing the entry
lruGet_NoTouch(c, k) ==
    LET i == lruIndex(c, k) IN
    IF i > 0
    THEN [cache |-> c, val |-> c[i].val, ok |-> TRUE]
    ELSE [cache |-> c, val |-> 0, ok |-> FALSE]

\* lru.Cache.Get: a hit moves the entry to the front and returns its value
lruGet(c, k) ==
    LET i == lruIndex(c, k) IN
    IF i > 0
    THEN [cache |-> MoveToFront(c, i), val |-> c[i].val, ok |-> TRUE]
    ELSE [cache |-> c, val |-> 0, ok |-> FALSE]

\* an Add that recycles the oldest entry for the new key and keeps its value
lruAdd_ReuseEntry(c, size, k, p) ==
    LET i == lruIndex(c, k) IN
    IF i > 0
    THEN MoveToFront([c EXCEPT ![i].val = p], i)
    ELSE IF Len(c) >= size /\ Len(c) > 0
         THEN <<[key |-> k, val |-> c[Len(c)].val]>> \o SubSeq(c, 1, Len(c) - 1)
         ELSE <<[key |-> k, val |-> p]>> \o c

\* an Add that never removes the oldest entry
lruAdd_NoEvict(c, size, k, p) ==
    LET i == lruIndex(c, k) IN
    IF i > 0
    THEN MoveToFront([c EXCEPT ![i].val = p], i)
    ELSE <<[key |-> k, val |-> p]>> \o c

\* lru.Cache.Add: an existing key is refreshed and overwritten, a new one is
\* pushed to the front and the oldest entry removed when size is exceeded
lruAdd(c, size, k, p) ==
    LET i == lruIndex(c, k) IN
    IF i > 0
    THEN MoveToFront([c EXCEPT ![i].val = p], i)
    ELSE LET d == <<[key |-> k, val |-> p]>> \o c IN
         IF Len(d) > size THEN removeOldest(d) ELSE d

\* ------------------------------------------------ views of the store
\* a constructor that takes the cache for maxKeys = 0 too
bounded_IncludingZero == maxKeys >= 0

\* ms.keys != nil
bounded == maxKeys > 0

\* the keys that have an entry
Present ==
    IF bounded THEN {keys[i].key : i \in 1..Len(keys)}
    ELSE {k \in Keys : m[k] # 0}

\* the cell stored under key k (0 = no entry)
CellOf(k) ==
    IF bounded
    THEN (IF lruIndex(keys, k) > 0 THEN keys[lruIndex(keys, k)].val ELSE 0)
    ELSE m[k]

\* the value stored under a present key k
ValueOf(k) == heap[CellOf(k)]

\* ---------------------------------------------- history of touches
\* ranks 1..n of the present keys by the time of their most recent touch
\* (insertion or cache hit); 0 for a key that is not in the cache
Rank(lt, k) == Cardinality({j \in Keys : lt[j] > 0 /\ lt[j] <= lt[k]})
Touched(lt, k) ==
    LET t == [lt EXCEPT ![k] = NumKeys + 1] IN
    [j \in Keys |-> IF t[j] = 0 THEN 0 ELSE Rank(t, j)]
Dropped(lt, gone) == [j \in Keys |-> IF j \in gone THEN 0 ELSE lt[j]]

\* --------------------------------------------------------- Init
\* NewMemStore(maxKeys)
NewMemStore ==
    /\ maxKeys \in Caps
    /\ keys = <<>>
    /\ m = [k \in Keys |-> 0]
    /\ heap = <<>>
    /\ writer = 0
    /\ readers = {}

Init ==
    /\ NewMemStore
    /\ pc = [t \in Threads |-> "idle"]
    /\ call = [t \in Threads |-> NoCall]
    /\ valP = [t \in Threads |-> 0]
    /\ res = [t \in Threads |-> NoRes]
    /\ ncalls = 0
    /\ lastTouch = [k \in Keys |-> 0]
    /\ evicted = [k \in Keys |-> 0]
    /\ everSet = {}
    /\ lin = NoHistory
    /\ writes = [k \in Keys |-> <<>>]

\* ------------------------------------------------------ the callers
\* a goroutine calls Get, SetNX or CompareAndSwap; each starts with ms.get(key, false)
Invoke(t, c) ==
    /\ pc[t] = "idle"
    /\ ncalls < MaxCalls
    /\ ncalls' = ncalls + 1
    /\ call' = [call EXCEPT ![t] = c]
    /\ pc' = [pc EXCEPT ![t] = "get"]
    /\ valP' = [valP EXCEPT ![t] = 0]
    /\ res' = [res EXCEPT ![t] = NoRes]
    /\ UNCHANGED <<store, locks, hist>>

CallGet(t) ==
    \E k \in Keys : Invoke(t, [NoCall EXCEPT !.op = "Get", !.key = k])

CallSetNX(t) ==
    \E k \in Keys, v \in Vals :
        Invoke(t, [NoCall EXCEPT !.op = "SetNX", !.key = k, !.value = v])

CallCompareAndSwap(t) ==
    \E k \in Keys, o \in Vals, n \in Vals :
        Invoke(t, [NoCall EXCEPT !.op = "CompareAndSwap", !.key = k, !.old = o, !.new = n])

\* the call has returned to the caller, which is free to make another
Return(t) ==
    /\ pc[t] = "ret"
    /\ pc' = [pc EXCEPT ![t] = "idle"]
    /\ call' = [call EXCEPT ![t] = NoCall]
    /\ valP' = [valP EXCEPT ![t] = 0]
    /\ res' = [res EXCEPT ![t] = NoRes]
    /\ UNCHANGED <<store, locks, hist, ncalls>>

\* ------------------------------------------------ ms.get(key, false)
\* what Get, SetNX and CompareAndSwap do with the (valP, ok) of ms.get(key, false)
afterGetPc(o, ok) ==
    IF ok
    THEN (IF o = "Get" THEN "load" ELSE IF o = "SetNX" THEN "ret" ELSE "cas")
    ELSE (IF o = "SetNX" THEN "Lock" ELSE "ret")

\* CompareAndSwap reporting a missing key as (false, nil)
afterGetRes_NoError(o, ok) ==
    IF ok
    THEN (IF o = "SetNX" THEN [val |-> 0, b |-> FALSE, err |-> nil] ELSE NoRes)
    ELSE (IF o = "SetNX" THEN NoRes
          ELSE IF o = "Get" THEN [val |-> 0, b |-> FALSE, err |-> ErrNoSuchKey]
          ELSE [val |-> 0, b |-> FALSE, err |-> nil])

\* Get reporting a missing key as (0, nil)
afterGetRes_SilentZero(o, ok) ==
    IF ok
    THEN (IF o = "SetNX" THEN [val |-> 0, b |-> FALSE, err |-> nil] ELSE NoRes)
    ELSE (IF o = "SetNX" THEN NoRes
          ELSE IF o = "Get" THEN [val |-> 0, b |-> FALSE, err |-> nil]
          ELSE [val |-> 0, b |-> FALSE, err |-> ErrNoSuchKey])

afterGetRes(o, ok) ==
    IF ok
    THEN (IF o = "SetNX" THEN [val |-> 0, b |-> FALSE, err |-> nil] ELSE NoRes)
    ELSE (IF o = "SetNX" THEN NoRes
          ELSE [val |-> 0, b |-> FALSE, err |-> ErrNoSuchKey])

\* a cache lookup that waits for the structural lock
get_lru_RLocked(t) ==
    /\ pc[t] = "get"
    /\ bounded
    /\ writer = 0
    /\ LET g == lruGet(keys, call[t].key) IN
        /\ keys' = g.cache
        /\ valP' = [valP EXCEPT ![t] = g.val]
        /\ pc' = [pc EXCEPT ![t] = afterGetPc(call[t].op, g.ok)]
        /\ res' = [res EXCEPT ![t] = afterGetRes(call[t].op, g.ok)]
        /\ lastTouch' = IF g.ok THEN Touched(lastTouch, call[t].key) ELSE lastTouch
    /\ UNCHANGED <<maxKeys, m, heap, locks, call, ncalls, evicted, everSet>>

\* bounded store: ms.keys.Get(key), atomic under the cache's own lock
get_lru(t) ==
    /\ pc[t] = "get"
    /\ bounded
    /\ LET g == lruGet(keys, call[t].key) IN
        /\ keys' = g.cache
        /\ valP' = [valP EXCEPT ![t] = g.val]
        /\ pc' = [pc EXCEPT ![t] = afterGetPc(call[t].op, g.ok)]
        /\ res' = [res EXCEPT ![t] = afterGetRes(call[t].op, g.ok)]
        /\ lastTouch' = IF g.ok THEN Touched(lastTouch, call[t].key) ELSE lastTouch
    /\ UNCHANGED <<maxKeys, m, heap, locks, call, ncalls, evicted, everSet>>

\* unbounded store: ms.RLock(), blocked while a writer holds or awaits the lock
get_RLock(t) ==
    /\ pc[t] = "get"
    /\ ~bounded
    /\ writer = 0
    /\ readers' = readers \cup {t}
    /\ pc' = [pc EXCEPT ![t] = "get_read"]
    /\ UNCHANGED <<store, writer, call, valP, res, ncalls, hist>>

\* valP, ok = ms.m[key]
get_read(t) ==
    /\ pc[t] = "get_read"
    /\ valP' = [valP EXCEPT ![t] = m[call[t].key]]
    /\ pc' = [pc EXCEPT ![t] = "get_RUnlock"]
    /\ UNCHANGED <<store, locks, call, res, ncalls, hist>>

\* a lookup that returns with the shared lock still held
get_RUnlock_Leak(t) ==
    /\ pc[t] = "get_RUnlock"
    /\ pc' = [pc EXCEPT ![t] = afterGetPc(call[t].op, valP[t] # 0)]
    /\ res' = [res EXCEPT ![t] = afterGetRes(call[t].op, valP[t] # 0)]
    /\ UNCHANGED <<store, locks, call, valP, ncalls, hist>>

\* the deferred ms.RUnlock(), then the caller's test of ok
get_RUnlock(t) ==
    /\ pc[t] = "get_RUnlock"
    /\ readers' = readers \ {t}
    /\ pc' = [pc EXCEPT ![t] = afterGetPc(call[t].op, valP[t] # 0)]
    /\ res' = [res EXCEPT ![t] = afterGetRes(call[t].op, valP[t] # 0)]
    /\ UNCHANGED <<store, writer, call, valP, ncalls, hist>>

\* ---------------------------------------------------------- Get
\* a load that returns a value the cell does not hold
Get_Load_Torn(t) ==
    /\ pc[t] = "load"
    /\ res' = [res EXCEPT ![t] = [val |-> (heap[valP[t]] + 1) % (MaxVal + 1),
                                  b |-> FALSE, err |-> nil]]
    /\ pc' = [pc EXCEPT ![t] = "ret"]
    /\ UNCHANGED <<store, locks, call, valP, ncalls, hist>>

\* a load that resets the cell it reads
Get_Load_Clear(t) ==
    /\ pc[t] = "load"
    /\ res' = [res EXCEPT ![t] = [val |-> heap[valP[t]], b |-> FALSE, err |-> nil]]
    /\ heap' = [heap EXCEPT ![valP[t]] = 0]
    /\ pc' = [pc EXCEPT ![t] = "ret"]
    /\ UNCHANGED <<maxKeys, keys, m, locks, call, valP, ncalls, hist>>

\* return atomic.LoadInt64(valP), nil
Get_Load(t) ==
    /\ pc[t] = "load"
    /\ res' = [res EXCEPT ![t] = [val |-> heap[valP[t]], b |-> FALSE, err |-> nil]]
    /\ pc' = [pc EXCEPT ![t] = "ret"]
    /\ UNCHANGED <<store, locks, call, valP, ncalls, hist>>

\* ------------------------------------------------ CompareAndSwap
\* an exchange that stores new without comparing
CompareAndSwapInt64_Blind(h, p, o, n) ==
    [heap |-> [h EXCEPT ![p] = n], swapped |-> TRUE]

\* atomic.CompareAndSwapInt64(valP, old, new)
CompareAndSwapInt64(h, p, o, n) ==
    IF h[p] = o THEN [heap |-> [h EXCEPT ![p] = n], swapped |-> TRUE]
    ELSE [heap |-> h, swapped |-> FALSE]

\* a CompareAndSwap that reports a mismatch as a missing key
CompareAndSwap_Exchange_ErrOnMismatch(t) ==
    /\ pc[t] = "cas"
    /\ LET x == CompareAndSwapInt64(heap, valP[t], call[t].old, call[t].new) IN
        /\ heap' = x.heap
        /\ res' = [res EXCEPT ![t] = [val |-> 0, b |-> x.swapped,
                                      err |-> IF x.swapped THEN nil ELSE ErrNoSuchKey]]
    /\ pc' = [pc EXCEPT ![t] = "ret"]
    /\ UNCHANGED <<maxKeys, keys, m, locks, call, valP, ncalls, hist>>

CompareAndSwap_Exchange(t) ==
    /\ pc[t] = "cas"
    /\ LET x == CompareAndSwapInt64(heap, valP[t], call[t].old, call[t].new) IN
        /\ heap' = x.heap
        /\ res' = [res EXCEPT ![t] = [val |-> 0, b |-> x.swapped, err |-> nil]]
    /\ pc' = [pc EXCEPT ![t] = "ret"]
    /\ UNCHANGED <<maxKeys, keys, m, locks, call, valP, ncalls, hist>>

\* --------------------------------------------------------- SetNX
\* a Lock() that does not exclude another writer
SetNX_Lock_Shared(t) ==
    /\ pc[t] = "Lock"
    /\ writer' = t
    /\ pc' = [pc EXCEPT ![t] = "Lock_wait"]
    /\ UNCHANGED <<store, readers, call, valP, res, ncalls, hist>>

\* ms.Lock(): take rw.w and announce the writer, which stops new readers ...
SetNX_Lock(t) ==
    /\ pc[t] = "Lock"
    /\ writer = 0
    /\ writer' = t
    /\ pc' = [pc EXCEPT ![t] = "Lock_wait"]
    /\ UNCHANGED <<store, readers, call, valP, res, ncalls, hist>>

\* a Lock() that does not wait for the active readers
SetNX_LockWait_NoWait(t) ==
    /\ pc[t] = "Lock_wait"
    /\ pc' = [pc EXCEPT ![t] = "get_locked"]
    /\ UNCHANGED <<store, locks, call, valP, res, ncalls, hist>>

\* ... then wait for the active readers to leave
SetNX_LockWait(t) ==
    /\ pc[t] = "Lock_wait"
    /\ readers = {}
    /\ pc' = [pc EXCEPT ![t] = "get_locked"]
    /\ UNCHANGED <<store, locks, call, valP, res, ncalls, hist>>

\* a SetNX that inserts without looking again under the lock
SetNX_get_locked_NoRecheck(t) ==
    /\ pc[t] = "get_locked"
    /\ pc' = [pc EXCEPT ![t] = "add"]
    /\ UNCHANGED <<store, locks, call, valP, res, ncalls, hist>>

\* a re-check that asks for the lock its own SetNX holds
SetNX_get_locked_Relock(t) ==
    /\ pc[t] = "get_locked"
    /\ writer = 0
    /\ pc' = [pc EXCEPT ![t] = "add"]
    /\ UNCHANGED <<store, locks, call, valP, res, ncalls, hist>>

\* _, ok = ms.get(key, true) under the exclusive lock
SetNX_get_locked(t) ==
    /\ pc[t] = "get_locked"
    /\ LET g == IF bounded THEN lruGet(keys, call[t].key)
                ELSE [cache |-> keys, val |-> m[call[t].key], ok |-> m[call[t].key] # 0]
       IN
        /\ keys' = g.cache
        /\ valP' = [valP EXCEPT ![t] = g.val]
        /\ pc' = [pc EXCEPT ![t] = IF g.ok THEN "Unlock" ELSE "add"]
        /\ res' = [res EXCEPT ![t] =
                      IF g.ok THEN [val |-> 0, b |-> FALSE, err |-> nil] ELSE NoRes]
        /\ lastTouch' = IF bounded /\ g.ok THEN Touched(lastTouch, call[t].key)
                        ELSE lastTouch
    /\ UNCHANGED <<maxKeys, m, heap, locks, call, ncalls, evicted, everSet>>

\* v := value; ms.keys.Add(key, &v) or ms.m[key] = &v
SetNX_Add(t) ==
    /\ pc[t] = "add"
    /\ UNCHANGED <<maxKeys, locks, call, valP, ncalls>>
    /\ LET k == call[t].key
           p == Len(heap) + 1
       IN
        /\ heap' = Append(heap, call[t].value)
        /\ IF bounded
           THEN /\ keys' = lruAdd(keys, maxKeys, k, p)
                /\ m' = m
           ELSE /\ m' = [m EXCEPT ![k] = p]
                /\ keys' = keys
        /\ LET gone == Present \ Present' IN
            /\ evicted' = [j \in Keys |-> IF j \in gone THEN CellOf(j) ELSE evicted[j]]
            /\ lastTouch' = IF bounded THEN Dropped(Touched(lastTouch, k), gone)
                            ELSE lastTouch
        /\ everSet' = everSet \cup {k}
    /\ res' = [res EXCEPT ![t] = [val |-> 0, b |-> TRUE, err |-> nil]]
    /\ pc' = [pc EXCEPT ![t] = "Unlock"]

\* the deferred ms.Unlock(), and SetNX returns
SetNX_Unlock(t) ==
    /\ pc[t] = "Unlock"
    /\ writer' = 0
    /\ pc' = [pc EXCEPT ![t] = "ret"]
    /\ UNCHANGED <<store, readers, call, valP, res, ncalls, hist>>

\* ---------------------------------------------------------- Next
\* the history of calls is kept by SpecLin only
Quiet == UNCHANGED <<lin, writes>>

Next ==
    \/ \E t \in Callers : CallGet(t) /\ Quiet
    \/ \E t \in Callers : CallSetNX(t) /\ Quiet
    \/ \E t \in Callers : CallCompareAndSwap(t) /\ Quiet
    \/ \E t \in Callers : Return(t) /\ Quiet
    \/ \E t \in Callers : get_lru(t) /\ Quiet
    \/ \E t \in Callers : get_RLock(t) /\ Quiet
    \/ \E t \in Callers : get_read(t) /\ Quiet
    \/ \E t \in Callers : get_RUnlock(t) /\ Quiet
    \/ \E t \in Callers : Get_Load(t) /\ Quiet
    \/ \E t \in Callers : CompareAndSwap_Exchange(t) /\ Quiet
    \/ \E t \in Callers : SetNX_Lock(t) /\ Quiet
    \/ \E t \in Callers : SetNX_LockWait(t) /\ Quiet
    \/ \E t \in Callers : SetNX_get_locked(t) /\ Quiet
    \/ \E t \in Callers : SetNX_Add(t) /\ Quiet
    \/ \E t \in Callers : SetNX_Unlock(t) /\ Quiet

Spec == Init /\ [][Next]_vars

TypeOK ==
    /\ maxKeys \in Caps
    /\ ncalls \in 0..MaxCalls
    /\ writer \in Threads \cup {0}
    /\ readers \subseteq Threads
    /\ \A t \in Threads : valP[t] \in 0..Len(heap)

\* ----------------------------------------------- the first-write race
\* A store that already holds other keys: the sequences of distinct keys of S ...
DistinctSeqs(S) ==
    {s \in UNION {[1..n -> S] : n \in 0..Cardinality(S)} :
        \A i, j \in DOMAIN s : i # j => s[i] # s[j]}

\* ... and the cache after SetNX of the keys of s in order (the i-th gets cell i)
RECURSIVE FillKeys(_, _)
FillKeys(size, s) ==
    IF s = <<>> THEN <<>>
    ELSE lruAdd(FillKeys(size, SubSeq(s, 1, Len(s) - 1)), size, s[Len(s)], Len(s))

CellIn(s, k) == IF \E i \in DOMAIN s : s[i] = k THEN CHOOSE i \in DOMAIN s : s[i] = k ELSE 0

\* N >= 1 goroutines have called SetNX(k, v_i) on a key k that has no entry
InitRace ==
    /\ maxKeys \in Caps
    /\ writer = 0
    /\ readers = {}
    /\ ncalls = 0
    /\ valP = [t \in Threads |-> 0]
    /\ res = [t \in Threads |-> NoRes]
    /\ lin = NoHistory
    /\ writes = [k \in Keys |-> <<>>]
    /\ \E k \in Keys :
        /\ \E s \in DistinctSeqs(Keys \ {k}) :
            /\ heap \in [DOMAIN s -> Vals]
            /\ keys = IF bounded THEN FillKeys(maxKeys, s) ELSE <<>>
            /\ m = [j \in Keys |-> IF bounded THEN 0 ELSE CellIn(s, j)]
            /\ everSet = {s[i] : i \in DOMAIN s}
            /\ evicted = [j \in Keys |->
                             IF bounded /\ lruIndex(keys, j) = 0 THEN CellIn(s, j) ELSE 0]
            /\ lastTouch = [j \in Keys |->
                               IF lruIndex(keys, j) = 0 THEN 0
                               ELSE Len(keys) + 1 - lruIndex(keys, j)]
        /\ \E racers \in (SUBSET Callers) \ {{}} :
            /\ pc = [t \in Threads |-> IF t \in racers THEN "get" ELSE "idle"]
            /\ \E v \in [racers -> Vals] :
                call = [t \in Threads |->
                           IF t \in racers
                           THEN [NoCall EXCEPT !.op = "SetNX", !.key = k, !.value = v[t]]
                           ELSE NoCall]

Racers == {t \in Callers : call[t].op = "SetNX"}
AllReturned == \A t \in Racers : pc[t] = "ret"

\* after all calls have returned, Get(key)
ObserveRace ==
    /\ AllReturned
    /\ \E t \in Racers : Invoke(Observer, [NoCall EXCEPT !.op = "Get", !.key = call[t].key])

NextRace ==
    \/ ObserveRace /\ Quiet
    \/ \E t \in Threads : get_lru(t) /\ Quiet
    \/ \E t \in Threads : get_RLock(t) /\ Quiet
    \/ \E t \in Threads : get_read(t) /\ Quiet
    \/ \E t \in Threads : get_RUnlock(t) /\ Quiet
    \/ \E t \in Threads : Get_Load(t) /\ Quiet
    \/ \E t \in Threads : SetNX_Lock(t) /\ Quiet
    \/ \E t \in Threads : SetNX_LockWait(t) /\ Quiet
    \/ \E t \in Threads : SetNX_get_locked(t) /\ Quiet
    \/ \E t \in Threads : SetNX_Add(t) /\ Quiet
    \/ \E t \in Threads : SetNX_Unlock(t) /\ Quiet

SpecRace == InitRace /\ [][NextRace]_vars

\* ------------------------------------------------------------ claims
Winners == {t \in Racers : res[t] = [val |-> 0, b |-> TRUE, err |-> nil]}
Losers == {t \in Racers : res[t] = [val |-> 0, b |-> FALSE, err |-> nil]}

\* C1 (first-writer-wins): when N >= 1 callers race SetNX(key, v_i) on a key
\* without entry and all have returned, exactly one call returned created =
\* true, the other N-1 returned false, and a Get(key) made afterwards returns
\* the value the winner supplied.
C1_FirstWriterWins ==
    AllReturned =>
        /\ Cardinality(Winners) = 1
        /\ Losers = Racers \ Winners
        /\ pc[Observer] = "ret" =>
              \E w \in Winners :
                  res[Observer] = [val |-> call[w].value, b |-> FALSE, err |-> nil]

\* two callers raced with different values and Get has read the result
C1_Witness ==
    /\ Cardinality(Racers) >= 2
    /\ AllReturned
    /\ \E t \in Racers, u \in Racers : call[t].value # call[u].value
    /\ pc[Observer] = "ret"

\* ------------------------------------------------ steps of a thread
\* thread t takes the step that leaves label l
Step(t, l) == pc[t] = l /\ pc'[t] # l

\* thread t takes the step of ms.get(key, false) that reads the container
LookupStep(t) == (maxKeys > 0 /\ Step(t, "get")) \/ Step(t, "get_read")

NotFound == [val |-> 0, b |-> FALSE, err |-> ErrNoSuchKey]
Created == [val |-> 0, b |-> TRUE, err |-> nil]
NotCreated == [val |-> 0, b |-> FALSE, err |-> nil]

\* C2 (CAS exactness, as claimed): the exchange of CompareAndSwap(key, old,
\* new) on a key that has an entry returns swapped = true iff the key's value
\* at that moment equals old; if true the key's value is new right after it,
\* if false the key's value is unchanged.
C2_CasExact ==
    [][\A t \in Threads :
          LET k == call[t].key IN
          (Step(t, "cas") /\ k \in Present) =>
              /\ res'[t].b <=> (ValueOf(k) = call[t].old)
              /\ res'[t].b => ValueOf(k)' = call[t].new
              /\ ~res'[t].b => ValueOf(k)' = ValueOf(k)]_vars

\* C3 (CAS on a key without entry): the lookup of CompareAndSwap finds nothing
\* exactly when the key has no entry, and the call then returns (false,
\* ErrNoSuchKey); a call that found an entry returns no error, so a mismatch
\* (false, nil) is told apart from a missing key.
C3_CasNoSuchKey ==
    /\ [][\A t \in Threads :
            (call[t].op = "CompareAndSwap" /\ LookupStep(t)) =>
                (valP'[t] = 0 <=> call[t].key \notin Present)]_vars
    /\ [](\A t \in Threads :
            (call[t].op = "CompareAndSwap" /\ pc[t] = "ret") =>
                IF valP[t] = 0 THEN res[t] = NotFound
                ELSE res[t].err = nil /\ res[t] # NotFound)

\* one CompareAndSwap has returned ErrNoSuchKey for an evicted key and another
\* has returned (false, nil) for a mismatch
C3_Witness ==
    \E t \in Threads, u \in Threads :
        /\ call[t].op = "CompareAndSwap" /\ pc[t] = "ret" /\ res[t] = NotFound
        /\ evicted[call[t].key] # 0
        /\ call[u].op = "CompareAndSwap" /\ pc[u] = "ret" /\ res[u] = NotCreated

\* C4 (as claimed): CompareAndSwap on a key that was never set returns
\* (false, nil).
C4_CasMissingNoError ==
    \A t \in Threads :
        (call[t].op = "CompareAndSwap" /\ pc[t] = "ret" /\ call[t].key \notin everSet) =>
            res[t] = [val |-> 0, b |-> FALSE, err |-> nil]

\* C4 (amended): CompareAndSwap on a key that was never set returns swapped =
\* false together with the error ErrNoSuchKey.
C4_CasMissingErrNoSuchKey ==
    \A t \in Threads :
        (call[t].op = "CompareAndSwap" /\ pc[t] = "ret" /\ call[t].key \notin everSet) =>
            /\ res[t].b = FALSE
            /\ res[t].err = ErrNoSuchKey

\* CompareAndSwap(missing, 0, 1) has returned on a store where the key was never set
C4_Witness ==
    \E t \in Threads :
        /\ call[t].op = "CompareAndSwap" /\ pc[t] = "ret"
        /\ call[t].old = 0 /\ call[t].new = 1
        /\ call[t].key \notin everSet

\* C5 (Get): the lookup of Get finds the key's entry, or nothing exactly when
\* the key has no entry; Get returns ErrNoSuchKey exactly when it found nothing
\* and otherwise the value the entry holds at the load, with no error; in the
\* unbounded store that is the key's value at the load.
C5_GetNoSuchKey ==
    /\ [][\A t \in Threads :
            LET k == call[t].key IN
            /\ (call[t].op = "Get" /\ LookupStep(t)) =>
                   /\ valP'[t] = CellOf(k)
                   /\ valP'[t] = 0 <=> k \notin Present
            /\ Step(t, "load") =>
                   /\ res'[t] = [val |-> heap[valP[t]], b |-> FALSE, err |-> nil]
                   /\ maxKeys <= 0 => res'[t].val = ValueOf(k)]_vars
    /\ [](\A t \in Threads :
            (call[t].op = "Get" /\ pc[t] = "ret") =>
                IF valP[t] = 0 THEN res[t] = NotFound ELSE res[t].err = nil)

\* one Get has returned ErrNoSuchKey for an evicted key, another a value
C5_Witness ==
    \E t \in Threads, u \in Threads :
        /\ call[t].op = "Get" /\ pc[t] = "ret" /\ res[t].err = ErrNoSuchKey
        /\ evicted[call[t].key] # 0
        /\ call[u].op = "Get" /\ pc[u] = "ret" /\ res[u].err = nil /\ res[u].val = 1

\* C6 (SetNX on an existing key): a lookup of SetNX, the first or the one under
\* the lock, of a key that has an entry finds it; a SetNX that found an entry
\* never reaches the insertion and returns (false, nil); and no step of SetNX
\* but the insertion, which returns true, changes the keys present or any value.
C6_SetNXExisting ==
    /\ [][\A t \in Threads :
            call[t].op = "SetNX" =>
                /\ ((LookupStep(t) \/ Step(t, "get_locked")) /\ call[t].key \in Present) =>
                       valP'[t] # 0 /\ valP'[t] = CellOf(call[t].key)
                /\ (pc'[t] # pc[t] /\ pc[t] # "add") =>
                       /\ Present' = Present
                       /\ \A k \in Present : ValueOf(k)' = ValueOf(k)
                /\ Step(t, "add") => res'[t] = Created]_vars
    /\ [](\A t \in Threads :
            (call[t].op = "SetNX" /\ valP[t] # 0) =>
                /\ pc[t] \in {"get_RUnlock", "ret", "Unlock"}
                /\ pc[t] \in {"ret", "Unlock"} => res[t] = NotCreated)

\* a SetNX found the key under the exclusive lock, after missing it at first
C6_Witness ==
    \E t \in Threads :
        /\ call[t].op = "SetNX" /\ pc[t] = "Unlock" /\ valP[t] # 0
        /\ call[t].key \in Present

\* the present keys whose most recent touch is the oldest
Oldest == {k \in Present : \A j \in Present : lastTouch[k] <= lastTouch[j]}

\* C7 (eviction bound, LRU victim): in a bounded store of capacity K, the
\* insertion of a new key while K keys are present leaves exactly K keys
\* present, and the one key that disappears is the key whose most recent touch
\* (insertion or successful lookup) is the oldest at that moment.
C7_EvictsLeastRecentlyTouched ==
    [][\A t \in Threads :
          LET k == call[t].key IN
          (Step(t, "add") /\ maxKeys > 0 /\ Cardinality(Present) = maxKeys
             /\ k \notin Present) =>
              /\ Cardinality(Present') = maxKeys
              /\ \E v \in Oldest :
                    /\ \A j \in Present \ {v} : lastTouch[v] < lastTouch[j]
                    /\ Present' = (Present \ {v}) \cup {k}]_vars

\* capacity 2: a key was evicted although a key inserted before it is still
\* present, because that older key was touched in between
C7_Witness ==
    /\ maxKeys = 2
    /\ Cardinality(Present) = 2
    /\ \E k \in Keys \ Present, j \in Present :
          evicted[k] # 0 /\ CellOf(j) < evicted[k]

\* C8 (capacity): a bounded store of capacity K never holds more than K keys,
\* and an insertion made while K keys are present removes exactly one key,
\* other than the inserted one, in the same step.
C8_Capacity ==
    /\ [](maxKeys > 0 => Cardinality(Present) <= maxKeys)
    /\ [][\A t \in Threads :
            (Step(t, "add") /\ maxKeys > 0 /\ Cardinality(Present) = maxKeys) =>
                /\ Cardinality(Present \ Present') = 1
                /\ call[t].key \in Present' \ Present]_vars

\* a full bounded store after two evictions
C8_Witness ==
    /\ maxKeys > 0
    /\ Cardinality(Present) = maxKeys
    /\ Cardinality({k \in Keys : evicted[k] # 0}) >= 2

\* C9 (re-creation after eviction): for a key that was evicted and has no
\* entry, the lookup of Get and of CompareAndSwap returns ErrNoSuchKey, the
\* lookups of SetNX find nothing, and the insertion of SetNX returns created =
\* true and installs the supplied value in a new cell, not the evicted one.
C9_RecreateAfterEviction ==
    [][\A t \in Threads :
          LET k == call[t].key IN
          (k \in Keys /\ evicted[k] # 0 /\ k \notin Present) =>
              /\ (Step(t, "get") /\ call[t].op # "SetNX") => res'[t] = NotFound
              /\ (Step(t, "get") /\ call[t].op = "SetNX") => pc'[t] = "Lock"
              /\ Step(t, "get_locked") => pc'[t] = "add"
              /\ Step(t, "add") =>
                    /\ res'[t] = Created
                    /\ k \in Present'
                    /\ ValueOf(k)' = call[t].value
                    /\ CellOf(k)' # evicted[k]]_vars

\* an evicted key is present again, with another value than it held when evicted
C9_Witness ==
    \E k \in Present :
        /\ evicted[k] # 0
        /\ CellOf(k) # evicted[k]
        /\ ValueOf(k) # heap[evicted[k]]

\* C10 (no eviction in the unbounded store): with maxKeys <= 0 every key a
\* SetNX has created stays present; a later lookup of it by Get, SetNX or
\* CompareAndSwap finds it, so Get and CompareAndSwap go on to their atomic
\* operation and SetNX returns (false, nil).
C10_UnboundedNeverEvicts ==
    /\ [](maxKeys <= 0 => everSet \subseteq Present)
    /\ [][maxKeys <= 0 =>
            \A t \in Threads :
                call[t].key \in everSet =>
                    /\ (Step(t, "get_read") \/ Step(t, "get_locked")) => valP'[t] # 0
                    /\ (Step(t, "get_RUnlock") /\ valP[t] # 0) =>
                          /\ call[t].op = "Get" => pc'[t] = "load"
                          /\ call[t].op = "CompareAndSwap" => pc'[t] = "cas"
                          /\ call[t].op = "SetNX" => pc'[t] = "ret" /\ res'[t] = NotCreated
                    /\ Step(t, "get_locked") => res'[t] = NotCreated]_vars

\* every key has been inserted in an unbounded store and a Get has succeeded
C10_Witness ==
    /\ maxKeys <= 0
    /\ everSet = Keys
    /\ \E t \in Threads : call[t].op = "Get" /\ pc[t] = "ret" /\ res[t].err = nil
\* ------------------------------------------- the history of the calls
\* a call on the key that has been invoked and has not taken effect yet
Todo == [val |-> 0, b |-> FALSE, err |-> "todo"]

\* what call cl returns when it is made alone on a key in state s ...
Alone(cl, s) ==
    CASE cl.op = "SetNX" -> IF s = Absent THEN Created ELSE NotCreated
      [] cl.op = "Get" ->
            IF s = Absent THEN NotFound ELSE [val |-> s, b |-> FALSE, err |-> nil]
      [] cl.op = "CompareAndSwap" ->
            IF s = Absent THEN NotFound ELSE [val |-> 0, b |-> s = cl.old, err |-> nil]

\* ... and the state it leaves
After(cl, s) ==
    CASE cl.op = "SetNX" -> IF s = Absent THEN cl.value ELSE s
      [] cl.op = "Get" -> s
      [] cl.op = "CompareAndSwap" -> IF s = cl.old THEN cl.new ELSE s

\* A configuration [s, r] of a key: its state s and, per thread, NoRes (no call
\* on the key in progress), Todo, or the result of its call that has taken
\* effect.  TakeEffect: the configurations reached from those of C by letting
\* calls in progress take effect, any number of them in any order.
RECURSIVE TakeEffect(_, _)
TakeEffect(C, cl) ==
    LET N == C \cup {[s |-> After(cl[x[2]], x[1].s),
                      r |-> [x[1].r EXCEPT ![x[2]] = Alone(cl[x[2]], x[1].s)]] :
                        x \in {y \in C \X Threads : y[1].r[y[2]] = Todo}}
    IN IF N = C THEN C ELSE TakeEffect(N, cl)

\* The step of thread t seen from each key k: an invocation on k adds the call
\* as Todo; the removal of k from the cache takes effect at once, on a key
\* that is not Absent; the return of a call on k keeps the configurations in
\* which the call has taken effect with the results it returns.  lin[k] is
\* empty iff no sequential order of the calls on k that keeps the order of the
\* calls that did not overlap explains the results returned so far.
Monitored(t) ==
    lin' = [k \in Keys |->
        LET invoked ==
                IF pc[t] = "idle" /\ call'[t].key = k
                THEN {[c EXCEPT !.r[t] = Todo] : c \in lin[k]}
                ELSE lin[k]
            removed ==
                IF k \in Present \ Present'
                THEN {[c EXCEPT !.s = Absent] :
                         c \in {d \in TakeEffect(invoked, call') : d.s # Absent}}
                ELSE invoked
        IN  IF pc[t] # "ret" /\ pc'[t] = "ret" /\ call[t].key = k
            THEN {[c EXCEPT !.r[t] = NoRes] :
                     c \in {d \in TakeEffect(removed, call') : d.r[t] = res'[t]}}
            ELSE removed]

\* the creation of a key and every successful exchange enter the key's writes
Written(t) ==
    writes' =
        IF Step(t, "add")
        THEN [writes EXCEPT ![call[t].key] =
                 Append(@, [old |-> Absent, new |-> call[t].value])]
        ELSE IF Step(t, "cas") /\ res'[t].b
        THEN [writes EXCEPT ![call[t].key] =
                 Append(@, [old |-> call[t].old, new |-> call[t].new])]
        ELSE writes

History(t) == Monitored(t) /\ Written(t)

\* the calls of Next, LinCalls of them, with their history
NextLin ==
    \/ \E t \in Callers : ncalls < LinCalls /\ CallGet(t) /\ History(t)
    \/ \E t \in Callers : ncalls < LinCalls /\ CallSetNX(t) /\ History(t)
    \/ \E t \in Callers : ncalls < LinCalls /\ CallCompareAndSwap(t) /\ History(t)
    \/ \E t \in Callers : Return(t) /\ History(t)
    \/ \E t \in Callers : get_lru(t) /\ History(t)
    \/ \E t \in Callers : get_RLock(t) /\ History(t)
    \/ \E t \in Callers : get_read(t) /\ History(t)
    \/ \E t \in Callers : get_RUnlock(t) /\ History(t)
    \/ \E t \in Callers : Get_Load(t) /\ History(t)
    \/ \E t \in Callers : CompareAndSwap_Exchange(t) /\ History(t)
    \/ \E t \in Callers : SetNX_Lock(t) /\ History(t)
    \/ \E t \in Callers : SetNX_LockWait(t) /\ History(t)
    \/ \E t \in Callers : SetNX_get_locked(t) /\ History(t)
    \/ \E t \in Callers : SetNX_Add(t) /\ History(t)
    \/ \E t \in Callers : SetNX_Unlock(t) /\ History(t)

SpecLin == Init /\ [][NextLin]_vars

WrittenValues(k) == {writes[k][i].new : i \in DOMAIN writes[k]}

\* C12 (no torn or invented values, unbounded store): every value a Get(k)
\* returns is the value of the SetNX(k) that returned true or the new of a
\* CompareAndSwap(k) that returned true; the writes of a key are one chain that
\* starts with the winning SetNX, each successful CompareAndSwap applied once
\* with old equal to the value before it, and the key's value is the end of
\* the chain.
C12_NoInventedValues ==
    ~bounded =>
        /\ \A t \in Callers :
              (pc[t] = "ret" /\ call[t].op = "Get" /\ res[t].err = nil) =>
                  res[t].val \in WrittenValues(call[t].key)
        /\ \A k \in Keys :
              /\ k \in Present <=> writes[k] # <<>>
              /\ k \in Present =>
                    /\ writes[k][1].old = Absent
                    /\ \A i \in 2..Len(writes[k]) : writes[k][i].old = writes[k][i - 1].new
                    /\ ValueOf(k) = writes[k][Len(writes[k])].new

\* a key of the map was created and exchanged to a different value, and a Get
\* has returned the value of the exchange
C12_Witness ==
    /\ ~bounded
    /\ \E t \in Callers :
        LET k == call[t].key IN
        /\ pc[t] = "ret" /\ call[t].op = "Get" /\ res[t].err = nil
        /\ Len(writes[k]) >= 2
        /\ \A i \in 2..Len(writes[k]) : writes[k][i].new # writes[k][i].old
        /\ res[t].val = ValueOf(k)

\* C13 (lookup and exchange as one read-modify-write, as claimed): under any
\* interleaving, the exchange of a CompareAndSwap that returns swapped = true
\* modifies the entry stored under its key at the moment of the exchange,
\* never a cell that is no longer the key's entry.
C13_CasOnCurrentEntry ==
    [][\A t \in Threads :
          (Step(t, "cas") /\ res'[t].b) => valP[t] = CellOf(call[t].key)]_vars

\* thread t is in a Get or a CompareAndSwap
Reading(t) == call[t].op \in {"Get", "CompareAndSwap"}

C15_NoLockAcrossAtomic ==
    \A t \in Callers :
        /\ pc[t] \in {"load", "cas"} => (t \notin readers /\ writer # t)
        /\ t \in readers => pc[t] \in {"get_read", "get_RUnlock"}
        /\ writer = t => pc[t] \in {"Lock_wait", "get_locked", "add", "Unlock"}

\* in the map store one thread is at its atomic operation after a lookup under
\* the shared lock while another inserts under the exclusive lock
C15_Witness ==
    /\ ~bounded
    /\ \E t \in Callers, u \in Callers :
        /\ pc[t] \in {"load", "cas"}
        /\ valP[t] # 0
        /\ writer = u /\ pc[u] = "add"

\* thread t holds the exclusive lock: its ms.Lock() has returned
HoldsExclusive(t) == writer = t /\ pc[t] \in {"get_locked", "add", "Unlock"}

\* C16 (structure under the lock): the set of keys of the container changes
\* only in the insertion step of a thread that holds the exclusive lock while
\* no thread holds the shared lock; in the unbounded store every read of the
\* map is made under the shared lock while no thread holds the exclusive
\* lock, or under the exclusive lock held by the reader itself.
C16_StructureUnderLock ==
    /\ [][(Present' # Present \/ m' # m) =>
              \E t \in Callers :
                  Step(t, "add") /\ HoldsExclusive(t) /\ readers = {}]_vars
    /\ [](\A t \in Callers :
            /\ pc[t] = "get_read" =>
                  (~bounded /\ t \in readers /\ \A u \in Callers : ~HoldsExclusive(u))
            /\ pc[t] \in {"get_locked", "add"} =>
                  (HoldsExclusive(t) /\ readers = {}))

\* in the map store a thread reads the map under the shared lock while a SetNX
\* that will insert a key waits for the exclusive lock
C16_Witness ==
    /\ ~bounded
    /\ \E t \in Callers, u \in Callers :
        /\ pc[t] = "get_read" /\ t \in readers
        /\ pc[u] = "Lock_wait" /\ writer = u
        /\ call[u].key \notin Present

\* C17 (eviction never rewrites a value): an insertion, evicting or not,
\* leaves the cell and the value of every key that stays present unchanged,
\* and the key it evicts has no entry afterwards; the only steps that change
\* the value of a present key are the exchanges of CompareAndSwap calls on
\* that key that return true.
C17_EvictionKeepsValues ==
    [][/\ \A k \in Present \cap Present' :
            ValueOf(k)' # ValueOf(k) =>
                \E t \in Callers :
                    Step(t, "cas") /\ call[t].key = k /\ res'[t].b
       /\ \A t \in Callers :
            Step(t, "add") =>
                /\ \A k \in Present \cap Present' :
                      CellOf(k)' = CellOf(k) /\ ValueOf(k)' = ValueOf(k)
                /\ \A k \in Present \ Present' : CellOf(k)' = 0]_vars

\* an insertion has just evicted a key, and a key that stayed holds a value
\* different from the one the evicted key held
C17_Witness ==
    /\ bounded
    /\ \E t \in Callers, k \in Keys, j \in Keys :
        /\ pc[t] = "Unlock" /\ res[t] = Created
        /\ evicted[k] # 0 /\ k \notin Present
        /\ j \in Present /\ j # call[t].key
        /\ ValueOf(j) # heap[evicted[k]]

\* ------------------------------------------------ fair scheduling
\* the steps of thread t inside a call, the lock acquisitions apart
Run(t) ==
    \/ get_lru(t) \/ get_read(t) \/ get_RUnlock(t)
    \/ Get_Load(t) \/ CompareAndSwap_Exchange(t)
    \/ SetNX_LockWait(t) \/ SetNX_get_locked(t) \/ SetNX_Add(t) \/ SetNX_Unlock(t)

\* Every goroutine that can run is run (weak fairness of its steps), and a
\* goroutine that waits for the RWMutex gets it if it is free again and again
\* (strong fairness of RLock and Lock: the lock is handed to its waiters).
Fairness ==
    \A t \in Callers :
        /\ WF_vars(Run(t) /\ Quiet)
        /\ SF_vars(get_RLock(t) /\ Quiet)
        /\ SF_vars(SetNX_Lock(t) /\ Quiet)

\* the calls of Next, FairCalls of them
NextFair ==
    \/ \E t \in Callers : ncalls < FairCalls /\ CallGet(t) /\ Quiet
    \/ \E t \in Callers : ncalls < FairCalls /\ CallSetNX(t) /\ Quiet
    \/ \E t \in Callers : ncalls < FairCalls /\ CallCompareAndSwap(t) /\ Quiet
    \/ \E t \in Callers : Return(t) /\ Quiet
    \/ \E t \in Callers : get_lru(t) /\ Quiet
    \/ \E t \in Callers : get_RLock(t) /\ Quiet
    \/ \E t \in Callers : get_read(t) /\ Quiet
    \/ \E t \in Callers : get_RUnlock(t) /\ Quiet
    \/ \E t \in Callers : Get_Load(t) /\ Quiet
    \/ \E t \in Callers : CompareAndSwap_Exchange(t) /\ Quiet
    \/ \E t \in Callers : SetNX_Lock(t) /\ Quiet
    \/ \E t \in Callers : SetNX_LockWait(t) /\ Quiet
    \/ \E t \in Callers : SetNX_get_locked(t) /\ Quiet
    \/ \E t \in Callers : SetNX_Add(t) /\ Quiet
    \/ \E t \in Callers : SetNX_Unlock(t) /\ Quiet

SpecFair == Init /\ [][NextFair]_vars /\ Fairness

\* thread t is inside a call
Busy(t) == pc[t] \notin {"idle", "ret"}

\* C18 (deadlock freedom and termination): with fair scheduling and fair lock
\* hand-off every call that has started returns; while a call is in progress
\* some thread inside a call can take a step; and the re-check of SetNX under
\* the exclusive lock never waits, as it takes no lock.
C18_Termination ==
    /\ \A t \in Callers : Busy(t) ~> (pc[t] = "ret")
    /\ []((\E t \in Callers : Busy(t)) =>
             \E t \in Callers :
                 Busy(t) /\ ENABLED (Run(t) \/ get_RLock(t) \/ SetNX_Lock(t)))
    /\ [](\A t \in Callers : pc[t] = "get_locked" => ENABLED SetNX_get_locked(t))

\* two SetNX raced for one key: the first has inserted it and returned, the
\* second got the lock after it and has found the key in its re-check
C18_Witness ==
    \E t \in Callers, u \in Callers :
        /\ t # u
        /\ call[t].op = "SetNX" /\ call[u].op = "SetNX" /\ call[t].key = call[u].key
        /\ pc[u] = "ret" /\ res[u] = Created
        /\ pc[t] = "Unlock" /\ res[t] = NotCreated /\ writer = t

\* C19 (frame of Get and CompareAndSwap): no step of a Get changes the set of
\* present keys, the cell or the value of any key (in the bounded store it may
\* change the order of recency only); no step of a CompareAndSwap(key, old,
\* new) changes the set of present keys, any key's cell or the value of a key
\* other than key, whether it succeeds, finds another value or finds no
\* entry, and it writes nothing unless it succeeds.
C19_Frame ==
    [][\A t \in Callers :
          /\ (call[t].op = "Get" /\ pc'[t] # pc[t]) =>
                /\ Present' = Present
                /\ \A k \in Present : CellOf(k)' = CellOf(k)
                /\ heap' = heap
                /\ ~bounded => (keys' = keys /\ m' = m)
          /\ (call[t].op = "CompareAndSwap" /\ pc'[t] # pc[t]) =>
                /\ Present' = Present
                /\ \A k \in Present : CellOf(k)' = CellOf(k)
                /\ \A k \in Present \ {call[t].key} : ValueOf(k)' = ValueOf(k)
                /\ ~bounded => (keys' = keys /\ m' = m)
                /\ ~(Step(t, "cas") /\ res'[t].b) => heap' = heap]_vars

\* a Get and a successful CompareAndSwap have returned in a store that holds
\* a second key
C19_Witness ==
    \E t \in Callers, u \in Callers :
        /\ pc[t] = "ret" /\ call[t].op = "Get" /\ res[t].err = nil
        /\ pc[u] = "ret" /\ call[u].op = "CompareAndSwap"
        /\ res[u] = [val |-> 0, b |-> TRUE, err |-> nil]
        /\ call[u].new # call[u].old
        /\ \E j \in Present : j # call[u].key

====
